---- MODULE Spec2Model ----
(***************************************************************************)
(* Model of the dataset-analysis workflow of frontend/src/App.jsx: the     *)
(* four React state cells (file, analysis, loading, error), the dropzone   *)
(* that feeds onDrop, the three buttons, and the one asynchronous          *)
(* boundary, the axios.post issued by analyzeDataset.                      *)
(*                                                                         *)
(* A JavaScript value that may be null is a sequence of length <= 1:       *)
(* null is << >> and a present value v is << v >>.                         *)
(***************************************************************************)
EXTENDS Integers, Sequences, FiniteSets

VARIABLES
    env,             \* import.meta.env: VITE_API_TIMEOUT and VITE_API_BASE_URL
    file,            \* useState(null), App.jsx:9
    analysis,        \* useState(null), App.jsx:10
    loading,         \* useState(false), App.jsx:11
    error,           \* useState(null), App.jsx:12
    requests,        \* log of the axios.post calls issued, in order
    inflight,        \* indices of requests whose promise has not settled
    accepted,        \* number of analyze clicks that passed the !file guard
    surfaced,        \* failures seen so far: kind, detail and message shown
    lastEvent        \* the event whose handler ran last

appState == <<file, analysis, loading, error>>
netState == <<requests, inflight>>
vars == <<env, file, analysis, loading, error, requests, inflight,
          accepted, surfaced, lastEvent>>

----------------------------------------------------------------------------
(* Bounds *)

MaxDrop == 2        \* files offered in one drop
MaxRequests == 3    \* requests issued in one behaviour

----------------------------------------------------------------------------
(* Values *)

null == << >>
Some(v) == << v >>

CsvMime == "text/csv"
XlsxMime == "application/vnd.openxmlformats-officedocument.spreadsheetml.sheet"

\* Files the user can offer: a File carries name, size and type.
SalesCsv == [name |-> "sales.csv", ext |-> ".csv", size |-> 12288, type |-> CsvMime]
DataXlsx == [name |-> "data.xlsx", ext |-> ".xlsx", size |-> 2048, type |-> XlsxMime]
ReportPdf == [name |-> "report.pdf", ext |-> ".pdf", size |-> 4096, type |-> "application/pdf"]
Files == {SalesCsv, DataXlsx, ReportPdf}

Drops == UNION {[1..n -> Files] : n \in 0..MaxDrop}

\* Response bodies of a 2xx answer, shaped as the render code reads them.
LowMissing == [titulo |-> "Low missing data", mensaje |-> "...", tipo_de_reporte |-> "info"]
EmptyReport == [metricas |-> "95", observaciones |-> << >>, sugerencias |-> << >>]
OneSuggestion == [metricas |-> "95", observaciones |-> << >>, sugerencias |-> <<LowMissing>>]
Reports == {EmptyReport, OneSuggestion}

\* What the rejected promise carries: err.response is absent when no answer
\* was obtained (timeout, connection failure) and holds the body's detail
\* (absent, empty or a text) when the server answered with a failure status.
Details == {null, Some(""), Some("internal error")}
TimeoutErr == [kind |-> "timeout", response |-> null]
NetworkErr == [kind |-> "network", response |-> null]
ServiceErrs == {[kind |-> "service", response |-> Some([status |-> "500", detail |-> d])] : d \in Details}
Errs == {TimeoutErr, NetworkErr} \cup ServiceErrs

\* import.meta.env is fixed when the bundle is built. A variable is unset
\* (null) or a string; a string that parseInt reads is a sequence of its
\* characters.
EnvTimeouts ==
    {null, Some(<< >>), Some(<<"a", "b", "c">>), Some(<<"0">>), Some(<<"-", "5">>),
     Some(<<"5", "0">>), Some(<<"1", "2", "m", "s">>)}
EnvBaseUrls == {null, Some(""), Some("http://api.example")}
UnsetEnv == [timeout |-> null, baseUrl |-> null]
EnvConfigs ==
    {[timeout |-> x, baseUrl |-> null] : x \in EnvTimeouts}
        \cup {[timeout |-> null, baseUrl |-> b] : b \in EnvBaseUrls}

GenericMsg == "Error al analizar el dataset"
NoFileMsg == "Por favor selecciona un archivo"

----------------------------------------------------------------------------
(* useDropzone({onDrop, accept, multiple: false}) *)

\* accept: a file passes when its MIME type or its extension is listed.
fileAccepted(f) ==
    \/ f.type \in {CsvMime, XlsxMime}
    \/ f.ext \in {".csv", ".xlsx"}

TypeOk(f) == fileAccepted(f)
TypeBad(f) == ~fileAccepted(f)
Reject(s, code) == [i \in 1..Len(s) |-> [file |-> s[i], code |-> code]]

\* multiple: false -- more than one acceptable file rejects the whole drop.
tooManyFiles(s) == Len(SelectSeq(s, TypeOk)) > 1

acceptedFilesOf(s) == IF tooManyFiles(s) THEN << >> ELSE SelectSeq(s, TypeOk)

fileRejectionsOf(s) ==
    Reject(SelectSeq(s, TypeBad), "file-invalid-type")
        \o (IF tooManyFiles(s) THEN Reject(SelectSeq(s, TypeOk), "too-many-files") ELSE << >>)

----------------------------------------------------------------------------
(* Configuration read from import.meta.env *)

DefaultTimeout == 30000
DefaultBaseUrl == "http://localhost:8000"

IsDigit(c) == c \in {"0", "1", "2", "3", "4", "5", "6", "7", "8", "9"}
DigitValue(c) ==
    CASE c = "0" -> 0 [] c = "1" -> 1 [] c = "2" -> 2 [] c = "3" -> 3 [] c = "4" -> 4
      [] c = "5" -> 5 [] c = "6" -> 6 [] c = "7" -> 7 [] c = "8" -> 8 [] c = "9" -> 9

\* The value of the longest prefix of digits of s, continuing from acc.
RECURSIVE ParseDigits(_, _)
ParseDigits(s, acc) ==
    IF s = << >> \/ ~IsDigit(Head(s)) THEN acc
    ELSE ParseDigits(Tail(s), acc * 10 + DigitValue(Head(s)))

\* JavaScript parseInt: an optional sign, then the leading digits; what
\* follows them is ignored; NaN (null here) when there is no leading digit,
\* as for undefined and for the empty string.
parseInt(v) ==
    IF v = null THEN null
    ELSE LET s == v[1]
             signed == s # << >> /\ Head(s) \in {"-", "+"}
             body == IF signed THEN Tail(s) ELSE s
             n == ParseDigits(body, 0)
         IN  IF body = << >> \/ ~IsDigit(Head(body)) THEN null
             ELSE IF signed /\ Head(s) = "-" THEN Some(0 - n) ELSE Some(n)

\* parseInt(import.meta.env.VITE_API_TIMEOUT) || 30000: NaN and 0 are falsy.
requestTimeout ==
    LET n == parseInt(env.timeout)
    IN  IF n # null /\ n[1] # 0 THEN n[1] ELSE DefaultTimeout

\* import.meta.env.VITE_API_BASE_URL || "http://localhost:8000"
API_BASE_URL ==
    IF env.baseUrl # null /\ env.baseUrl # Some("") THEN env.baseUrl[1] ELSE DefaultBaseUrl

\* The call axios.post(`${API_BASE_URL}/analyze_dataset/`, formData, {timeout}).
postOf(f) ==
    [file |-> f, url |-> <<API_BASE_URL, "/analyze_dataset/">>, timeout |-> requestTimeout]

----------------------------------------------------------------------------
(* Handlers *)

\* onDrop without the `if (selectedFile)` guard.
onDrop_unguarded(acceptedFiles) ==
    /\ file' = (IF acceptedFiles # << >> THEN Some(acceptedFiles[1]) ELSE null)
    /\ error' = null
    /\ analysis' = null
    /\ UNCHANGED loading

onDrop(acceptedFiles) ==
    IF acceptedFiles # << >>
    THEN /\ file' = Some(acceptedFiles[1])
         /\ error' = null
         /\ analysis' = null
         /\ UNCHANGED loading
    ELSE UNCHANGED appState

\* err.response?.data?.detail || "Error al analizar el dataset"
Truthy(d) == d # null /\ d # Some("")
\* The catch falling back on err.message, which axios words per failure.
errorMessage_errText(err) ==
    IF err.response # null /\ Truthy(err.response[1].detail)
    THEN err.response[1].detail
    ELSE IF err.kind = "timeout" THEN Some("timeout exceeded")
    ELSE IF err.kind = "network" THEN Some("Network Error")
    ELSE Some(GenericMsg)

\* The catch showing the detail of any answer, without the || fallback.
errorMessage_noFallback(err) ==
    IF err.response # null THEN err.response[1].detail ELSE Some(GenericMsg)

errorMessage(err) ==
    IF err.response # null /\ Truthy(err.response[1].detail)
    THEN err.response[1].detail
    ELSE Some(GenericMsg)

\* analyzeDataset without setError(null) before the request.
analyzeDataset_keepsError ==
    IF file = null
    THEN /\ error' = Some(NoFileMsg)
         /\ UNCHANGED <<file, analysis, loading, requests, inflight, accepted>>
    ELSE /\ loading' = TRUE
         /\ accepted' = accepted + 1
         /\ requests' = Append(requests, postOf(file[1]))
         /\ inflight' = inflight \cup {Len(requests) + 1}
         /\ UNCHANGED <<file, analysis, error>>

\* analyzeDataset whose !file guard returns without a message.
analyzeDataset_silentGuard ==
    IF file = null
    THEN UNCHANGED <<file, analysis, loading, error, requests, inflight, accepted>>
    ELSE /\ loading' = TRUE
         /\ error' = null
         /\ accepted' = accepted + 1
         /\ requests' = Append(requests, postOf(file[1]))
         /\ inflight' = inflight \cup {Len(requests) + 1}
         /\ UNCHANGED <<file, analysis>>

\* analyzeDataset up to the await: guard, flags, axios.post.
analyzeDataset ==
    IF file = null
    THEN /\ error' = Some(NoFileMsg)
         /\ UNCHANGED <<file, analysis, loading, requests, inflight, accepted>>
    ELSE /\ loading' = TRUE
         /\ error' = null
         /\ accepted' = accepted + 1
         /\ requests' = Append(requests, postOf(file[1]))
         /\ inflight' = inflight \cup {Len(requests) + 1}
         /\ UNCHANGED <<file, analysis>>

\* The fulfilled path without the finally block.
onSuccess_noFinally(r, data) ==
    /\ analysis' = Some(data)
    /\ inflight' = inflight \ {r}
    /\ UNCHANGED <<file, loading, error, requests>>

\* analyzeDataset after the await, promise fulfilled: try body, finally.
onSuccess(r, data) ==
    /\ analysis' = Some(data)
    /\ loading' = FALSE
    /\ inflight' = inflight \ {r}
    /\ UNCHANGED <<file, error, requests>>

\* The rejected path without the finally block.
onFailure_noFinally(r, err) ==
    /\ error' = errorMessage(err)
    /\ inflight' = inflight \ {r}
    /\ UNCHANGED <<file, analysis, loading, requests>>

\* The rejected path posting the same form again by itself.
onFailure_retry(r, err) ==
    /\ error' = errorMessage(err)
    /\ requests' = Append(requests, requests[r])
    /\ inflight' = (inflight \ {r}) \cup {Len(requests) + 1}
    /\ UNCHANGED <<file, analysis, loading>>

\* analyzeDataset after the await, promise rejected: catch, finally.
onFailure(r, err) ==
    /\ error' = errorMessage(err)
    /\ loading' = FALSE
    /\ inflight' = inflight \ {r}
    /\ UNCHANGED <<file, analysis, requests>>

\* resetAnalysis without setFile(null).
resetAnalysis_keepsFile ==
    /\ analysis' = null
    /\ error' = null
    /\ UNCHANGED <<file, loading>>

\* resetAnalysis without setAnalysis(null).
resetAnalysis_keepsAnalysis ==
    /\ file' = null
    /\ error' = null
    /\ UNCHANGED <<analysis, loading>>

resetAnalysis ==
    /\ file' = null
    /\ analysis' = null
    /\ error' = null
    /\ UNCHANGED loading

clearFile ==
    /\ file' = null
    /\ UNCHANGED <<analysis, loading, error>>

----------------------------------------------------------------------------
(* What the render shows, which decides the events that can occur *)

\* The upload section rendered whatever analysis holds.
uploadSectionShown_always == TRUE
uploadSectionShown == analysis = null
actionButtonsShown == uploadSectionShown /\ file # null
\* The analyze button without disabled={loading}.
analyzeBtnDisabled_never == FALSE
analyzeBtnDisabled == loading
resultsSectionShown == analysis # null

----------------------------------------------------------------------------
(* Events *)

\* The state after mount, for a given build-time configuration.
InitWith(config) ==
    /\ env = config
    /\ file = null
    /\ analysis = null
    /\ loading = FALSE
    /\ error = null
    /\ requests = << >>
    /\ inflight = {}
    /\ accepted = 0
    /\ surfaced = {}
    /\ lastEvent = "mount"

\* The workflow is explored for the build with neither variable set.
Init == InitWith(UnsetEnv)

\* Any build-time configuration.
InitAnyEnv == \E config \in EnvConfigs : InitWith(config)

\* How the log names a drop: by what the dropzone made of the offered files.
dropEvent(s) ==
    IF acceptedFilesOf(s) # << >> THEN "drop"
    ELSE IF s = << >> THEN "dropEmpty"
    ELSE IF tooManyFiles(s) THEN "dropTooManyFiles"
    ELSE "dropInvalidType"

Drop(s) ==
    /\ UNCHANGED env
    /\ uploadSectionShown
    /\ onDrop(acceptedFilesOf(s))
    /\ lastEvent' = dropEvent(s)
    /\ UNCHANGED <<requests, inflight, accepted, surfaced>>

ClickAnalyze ==
    /\ UNCHANGED env
    /\ actionButtonsShown
    /\ ~analyzeBtnDisabled
    /\ Len(requests) < MaxRequests
    /\ analyzeDataset
    /\ lastEvent' = "analyze"
    /\ UNCHANGED surfaced

ClickAnalyzeDisabled ==
    /\ UNCHANGED env
    /\ actionButtonsShown
    /\ analyzeBtnDisabled
    /\ lastEvent' = "analyzeDisabled"
    /\ UNCHANGED <<file, analysis, loading, error, requests, inflight,
                   accepted, surfaced>>

ClickAnalyzeBtn == ClickAnalyze \/ ClickAnalyzeDisabled

ClickClear ==
    /\ UNCHANGED env
    /\ actionButtonsShown
    /\ clearFile
    /\ lastEvent' = "clearFile"
    /\ UNCHANGED <<requests, inflight, accepted, surfaced>>

ClickReset ==
    /\ UNCHANGED env
    /\ resultsSectionShown
    /\ resetAnalysis
    /\ lastEvent' = "reset"
    /\ UNCHANGED <<requests, inflight, accepted, surfaced>>

Fulfil(r, data) ==
    /\ UNCHANGED env
    /\ r \in inflight
    /\ onSuccess(r, data)
    /\ lastEvent' = "success"
    /\ UNCHANGED <<accepted, surfaced>>

RejectWith(r, err) ==
    /\ UNCHANGED env
    /\ r \in inflight
    /\ onFailure(r, err)
    /\ surfaced' = surfaced \cup
           {[kind |-> err.kind, response |-> err.response, shown |-> error']}
    /\ lastEvent' = "failure"
    /\ UNCHANGED accepted

Settle ==
    \/ \E r \in inflight, data \in Reports : Fulfil(r, data)
    \/ \E r \in inflight, err \in Errs : RejectWith(r, err)

Next ==
    \/ \E s \in Drops : Drop(s)
    \/ ClickAnalyze
    \/ ClickAnalyzeDisabled
    \/ ClickClear
    \/ ClickReset
    \/ \E r \in inflight, data \in Reports : Fulfil(r, data)
    \/ \E r \in inflight, err \in Errs : RejectWith(r, err)

Spec == Init /\ [][Next]_vars

\* The network call eventually completes: response, transport failure or timeout.
LiveSpec == Spec /\ WF_vars(Settle)

\* The ways back to the empty upload view that the render offers: the clear
\* button with no error shown, and a drop of an acceptable file, which is
\* what clears a shown error.
ClearToEmpty == ClickClear /\ file' = null /\ analysis' = null /\ error' = null /\ ~loading'
DropClearsError == error # null /\ (\E s \in Drops : Drop(s) /\ error' = null)

\* A user who eventually takes an offered way back, and a network call that
\* eventually settles. Every condition is on a part of Next, so any reachable
\* state can be continued into a behaviour of RecoverSpec: what holds
\* eventually in all of them is reachable from every reachable state.
RecoverSpec ==
    /\ Spec
    /\ WF_vars(Settle)
    /\ SF_vars(ClickReset)
    /\ SF_vars(ClearToEmpty)
    /\ SF_vars(DropClearsError)

\* analyzeDataset called with no file held. No rendered button makes this
\* call (the analyze button exists only while a file is held); it is the
\* function called directly, as a test of the handler would.
CallAnalyzeNoFile ==
    /\ UNCHANGED env
    /\ file = null
    /\ analyzeDataset
    /\ lastEvent' = "analyzeNoFile"
    /\ UNCHANGED surfaced

NextCall == Next \/ CallAnalyzeNoFile

\* The rendered events under any build-time configuration.
ConfigSpec == InitAnyEnv /\ [][Next]_vars

\* The rendered events plus the direct call of analyzeDataset with no file.
CallSpec == Init /\ [][NextCall]_vars

----------------------------------------------------------------------------
(* The workflow states of the specification, read off the four flags *)

IsIdle == file = null /\ analysis = null /\ ~loading /\ error = null
IsFileSelected == file # null /\ analysis = null /\ ~loading /\ error = null
IsSubmitting == file # null /\ analysis = null /\ loading /\ error = null
IsSucceeded == analysis # null /\ ~loading /\ error = null
IsFailed == error # null /\ analysis = null /\ ~loading

HasDetail(p) == p.kind = "service" /\ Truthy(p.response[1].detail)

----------------------------------------------------------------------------
(* Claims *)

\* C1: at most one submission is in flight in every reachable state, and a
\* click on the analyze button while a submission is pending (loading) issues
\* no request and changes no part of the state.
C1_SingleSubmission ==
    /\ [](Cardinality(inflight) <= 1)
    /\ [][(loading /\ ClickAnalyzeBtn) => UNCHANGED <<appState, netState, accepted>>]_vars

C1_Witness ==
    /\ lastEvent = "analyzeDisabled"
    /\ loading
    /\ Cardinality(inflight) = 1

\* C2 (as claimed): when the submission of candidate c fails, the state after
\* the failure holds c itself, an error, no result, and loading is false.
C2_FailureRetainsSubmitted ==
    [][\A r \in inflight, err \in Errs :
          RejectWith(r, err) =>
              /\ file' = Some(requests[r].file)
              /\ error' # null
              /\ analysis' = null
              /\ loading' = FALSE]_vars

\* C3: never stuck in Submitting -- given that the network call eventually
\* settles, a pending submission leads to a state with loading false and a
\* result or an error present.
C3_NeverStuck == loading ~> (~loading /\ (analysis # null \/ error # null))

C3_Witness ==
    /\ lastEvent = "failure"
    /\ ~loading
    /\ error # null
    /\ inflight = {}

\* C4 (as claimed): clearFile issued from FileSelected, Succeeded or Failed
\* yields Idle -- no candidate, no result, no error afterwards.
C4_ClearYieldsIdle ==
    [][((IsFileSelected \/ IsSucceeded \/ IsFailed) /\ ClickClear) =>
          (file' = null /\ analysis' = null /\ error' = null)]_vars

\* C5 (as claimed): every successful select, in whatever state it occurs,
\* leaves FileSelected(new candidate): the new file held, no result, no error,
\* nothing pending.
C5_SelectYieldsFileSelected ==
    [][\A s \in Drops :
          (Drop(s) /\ acceptedFilesOf(s) # << >>) =>
              /\ file' = Some(acceptedFilesOf(s)[1])
              /\ analysis' = null
              /\ error' = null
              /\ loading' = FALSE]_vars

\* C6 (as claimed): in every reachable state the four flags encode one of
\* Idle, FileSelected, Submitting, Succeeded, Failed.
C6_OneWorkflowState ==
    IsIdle \/ IsFileSelected \/ IsSubmitting \/ IsSucceeded \/ IsFailed

C8_NoAutomaticRequests ==
    /\ [](Len(requests) = accepted)
    /\ [][requests' # requests =>
            (ClickAnalyze /\ Len(requests') = Len(requests) + 1)]_vars

C8_Witness ==
    /\ Len(requests) = 2
    /\ requests[1] = requests[2]
    /\ lastEvent = "failure"
    /\ inflight = {}

\* C9: reset (offered only while a result is shown) always yields Idle: no
\* candidate, no result, no error, nothing pending.
C9_ResetYieldsIdle ==
    [][ClickReset => IsIdle']_vars

C9_Witness ==
    /\ lastEvent = "reset"
    /\ IsIdle
    /\ requests # << >>

C11_AnalyzeMovesToSubmitting ==
    [][ClickAnalyze =>
          /\ (IsFileSelected \/ (IsFailed /\ file # null))
          /\ IsSubmitting'
          /\ file' = file
          /\ requests'[Len(requests')].file = file[1]
          /\ inflight' = {Len(requests')}]_vars

C11_Witness ==
    /\ lastEvent = "analyze"
    /\ IsSubmitting
    /\ surfaced # {}
    /\ Len(requests) = 2
    /\ requests[1].file = requests[2].file

\* C12: when the pending request is answered with success the state becomes
\* Succeeded(result): the result is the response body, loading is false, no
\* error is held and the results section is shown -- also for a body whose
\* observations and suggestions are both empty.
C12_SuccessYieldsSucceeded ==
    [][\A r \in inflight, data \in Reports :
          Fulfil(r, data) =>
              /\ analysis' = Some(data)
              /\ IsSucceeded'
              /\ resultsSectionShown']_vars

C12_Witness ==
    /\ lastEvent = "success"
    /\ analysis = Some(EmptyReport)
    /\ IsSucceeded

\* C13: analyzeDataset called while no candidate is held reports the "no
\* file" message, issues no request and leaves candidate, result and loading
\* unchanged.
C13_AnalyzeWithoutFile ==
    [][CallAnalyzeNoFile =>
          /\ error' = Some(NoFileMsg)
          /\ UNCHANGED <<file, analysis, loading, requests, inflight, accepted>>]_vars

C13_Witness ==
    /\ lastEvent = "analyzeNoFile"
    /\ error = Some(NoFileMsg)
    /\ file = null
    /\ requests = << >>

\* C14: the machine has no terminal state -- in every reachable state some
\* event is enabled, and Idle is reached again from every reachable state
\* (it recurs in every behaviour of a user who takes the offered ways back).
C14_NoTerminalState ==
    /\ [](ENABLED Next)
    /\ []<>IsIdle

C14_Witness ==
    /\ IsIdle
    /\ lastEvent = "clearFile"
    /\ surfaced # {}
    /\ Len(requests) = MaxRequests

\* C15 (as claimed): the timeout of every request is a positive integer --
\* 30000 when the configured value is absent or invalid (non-numeric, zero or
\* negative), the configured value otherwise -- and an absent base URL falls
\* back to http://localhost:8000.
C15_TimeoutPositive ==
    \A i \in 1..Len(requests) :
        LET n == parseInt(env.timeout)
        IN  /\ requests[i].timeout > 0
            /\ requests[i].timeout = (IF n = null \/ n[1] <= 0 THEN 30000 ELSE n[1])
            /\ (env.baseUrl = null => requests[i].url[1] = "http://localhost:8000")

\* C16 (as claimed): for a failure answered with a non-success status the
\* message shown is the body's detail whenever that field is present, and the
\* generic message otherwise.
C16_DetailWhenPresent ==
    \A p \in surfaced :
        p.kind = "service" =>
            p.shown = (IF p.response[1].detail # null
                       THEN p.response[1].detail ELSE Some(GenericMsg))

\* C16 (amended): the message shown is the body's detail when that field is
\* present and not empty, and the generic message when it is absent or empty.
C16_DetailWhenNonEmpty ==
    \A p \in surfaced :
        p.kind = "service" =>
            /\ p.shown # null
            /\ p.shown # Some("")
            /\ p.response[1].detail \in {null, Some("")} => p.shown = Some(GenericMsg)
            /\ p.response[1].detail \notin {null, Some("")} => p.shown = p.response[1].detail

C16_Witness ==
    /\ \E p \in surfaced :
          p.kind = "service" /\ p.response[1].detail = Some("") /\ p.shown = Some(GenericMsg)
    /\ \E p \in surfaced :
          p.kind = "service" /\ p.response[1].detail = Some("internal error")
              /\ p.shown = Some("internal error")
    /\ \E p \in surfaced :
          p.kind = "service" /\ p.response[1].detail = null /\ p.shown = Some(GenericMsg)

\* C17 (as claimed): a select considers only the first offered file -- when
\* the first file is CSV or XLSX it becomes the held candidate, name and size
\* preserved, whatever files follow it.
C17_FirstOfferedIsSelected ==
    [][\A s \in Drops :
          (s # << >> /\ fileAccepted(s[1]) /\ Drop(s)) =>
              /\ file' = Some(s[1])
              /\ file'[1].name = s[1].name
              /\ file'[1].size = s[1].size]_vars

\* C18 (as claimed): a response is stored as the result only while the
\* candidate it was requested for is still the one held.
C18_ResultOfHeldCandidate ==
    [][\A r \in inflight, data \in Reports :
          Fulfil(r, data) => file' = Some(requests[r].file)]_vars

\* C19 (as claimed): while a submission is pending no event changes or drops
\* the held candidate, and only the settling of the request ends the pending
\* state.
C19_CandidateHeldWhilePending ==
    [][loading => (file' = file /\ (~loading' => Settle))]_vars

\* C20: while a result is present only reset can occur -- every step taken
\* with a result shown is the reset, it leads to Idle, and no request is
\* pending whose answer could overwrite the result.
C20_OnlyResetFromSucceeded ==
    /\ [](analysis # null => (IsSucceeded /\ inflight = {}))
    /\ [][analysis # null => (ClickReset /\ IsIdle')]_vars

C20_Witness ==
    /\ lastEvent = "reset"
    /\ IsIdle
    /\ accepted = 1
    /\ surfaced = {}

====
